---- MODULE Spec2Model ----
(***************************************************************************)
(* Model of the S3-to-S3 bypass of exporters                               *)
(* (src/exporters/export_managers/s3_to_s3_bypass.py): the persisted       *)
(* ledger S3BypassState, the per-key copy (_copy_key, _ensure_copy_key,    *)
(* key_permissions), the copy loop of S3Bypass.bypass and the eligibility  *)
(* gate S3Bypass.meets_conditions.                                         *)
(***************************************************************************)
EXTENDS Integers, Sequences, FiniteSets, TLC

\* ------------------------------------------------------------------ bounds

\* Attempts the retry wrapper makes for one call before it gives up.
MaxAttempts == 2
\* Runs of bypass() (fresh processes) explored.
MaxRuns == 3
\* Days the clock goes through.
MaxDay == 2

\* ---------------------------------------------------------- the environment

\* Key names are paths, modelled as their sequence of '/'-separated segments.
Enumeration == << <<"p", "a">>, <<"p", "b">>, <<"q", "a">> >>

RECURSIVE SeqToSet(_)
SeqToSet(s) == IF s = <<>> THEN {} ELSE {Head(s)} \cup SeqToSet(Tail(s))

KeyNames == SeqToSet(Enumeration)

\* The `total` metadata of a source key: a number, or absent (the second
\* key, so that keys with a total are copied before and after it). The third
\* key's last path segment is that of the first.
HasTotal(key) == key \in {<<"p", "a">>, <<"q", "a">>}
TotalOf(key) == IF key = <<"p", "a">> THEN 5 ELSE 10

\* Content fingerprints. A copy leaves the source's etag or a different one.
SrcEtag(key) == <<"etag">> \o key
CorruptEtag == <<"etag", "corrupt">>

\* Principals of the access-control lists.
DestUser == "dest"
OwnerGrant == [id |-> "owner", permission |-> "FULL_CONTROL"]
\* The ACL a source key starts with: the second key already grants READ to
\* the destination principal, the others do not.
InitialAcl(key) ==
    IF key = <<"p", "b">>
    THEN <<OwnerGrant, [id |-> DestUser, permission |-> "READ"]>>
    ELSE <<OwnerGrant>>

\* Outcomes of one storage request. S3Denied and S3Transient are both raised
\* as boto's S3ResponseError (a 403, a 5xx); Transport is any other exception
\* (a socket error).
ErrKinds == {"ok", "S3Denied", "S3Transient", "Transport"}
IsS3ResponseError(err) == err \in {"S3Denied", "S3Transient"}

\* What the storage does during one attempt of _copy_key: the outcome of
\* each request, in the order the attempt issues them. A request that the
\* attempt cannot reach after the earlier outcomes is left at "ok".
AllEnv ==
    [head : {"ok", "Transport"},
     acquire : {"ok", "S3Denied", "Transport"},
     copy : ErrKinds,
     clean : {"ok", "S3Transient", "Transport"},
     fallback : {"ok", "Transport"},
     post : {"ok", "S3Denied", "Transport"},
     etagMatch : BOOLEAN]

Reachable(e) ==
    LET s3 == \/ IsS3ResponseError(e.acquire)
              \/ IsS3ResponseError(e.clean)
              \/ (e.clean = "ok" /\ IsS3ResponseError(e.copy))
        escaped == \/ e.head # "ok"
                   \/ e.acquire = "Transport"
                   \/ e.clean = "Transport"
                   \/ (~s3 /\ e.copy = "Transport")
                   \/ e.fallback # "ok"
        wrote == (e.acquire = "ok" /\ e.copy = "ok") \/ (s3 /\ e.fallback = "ok")
    IN  /\ e.head # "ok" => e.acquire = "ok"
        /\ (e.head # "ok" \/ e.acquire # "ok") => (e.copy = "ok" /\ e.clean = "ok")
        /\ e.fallback # "ok" => (e.head = "ok" /\ s3)
        /\ escaped => e.post = "ok"
        /\ (~wrote \/ e.head # "ok") => e.etagMatch

Env == {e \in AllEnv : Reachable(e)}

\* ------------------------------------------------------- key_permissions

add_permissions(user_id, acl) ==
    Append(acl, [id |-> user_id, permission |-> "READ"])

clean_permissions(user_id, acl) ==
    SelectSeq(acl, LAMBDA x : ~(x.id = user_id))

key_has_permissions(user_id, acl) ==
    \E i \in 1..Len(acl) : acl[i].id = user_id

\* with key_permissions(user_id, key): copy_key(...)
\* acquire is the outcome of get_canonical_user_id, of the ACL read and of
\* the grant's addition (all before the try of the context manager), copy
\* that of copy_key and clean that of _clean_permissions in the finally.
\* Returns the ACL afterwards, the exception leaving the with block ("ok" for
\* none), and whether copy_key was issued and completed.
key_permissions(user_id, acl, acquire, copy, clean) ==
    LET permissions_handling == ~key_has_permissions(user_id, acl)
        entered == acquire = "ok"
        acl1 == IF entered /\ permissions_handling
                THEN add_permissions(user_id, acl) ELSE acl
        cleanRuns == entered /\ permissions_handling
        acl2 == IF cleanRuns /\ clean = "ok"
                THEN clean_permissions(user_id, acl1) ELSE acl1
        err == IF ~entered THEN acquire
               ELSE IF cleanRuns /\ clean # "ok" THEN clean
               ELSE copy
    IN  [acl |-> acl2,
         err |-> err,
         copied |-> entered /\ copy = "ok",
         handling |-> permissions_handling]

\* ------------------------------------------------------ _ensure_copy_key

\* Faulty variant: the comparison never raises.
check_copy_integrity_none(source_etag, dest_etag) == "ok"

\* Faulty variant: the mismatch is raised as an S3ResponseError.
check_copy_integrity_s3(source_etag, dest_etag) ==
    IF source_etag # dest_etag THEN "S3Denied" ELSE "ok"

\* _check_copy_integrity: the exception it raises, "ok" for none.
check_copy_integrity(source_etag, dest_etag) ==
    IF source_etag # dest_etag THEN "Integrity" ELSE "ok"

\* except S3ResponseError around the direct copy: the fallback's trigger.
direct_except_catches(err) == IsS3ResponseError(err)

\* Faulty variant: a bare except around the ACL set and the integrity check.
post_except_catches_all(err) == TRUE

\* except S3ResponseError around the ACL set and the integrity check.
post_except_catches(err) == IsS3ResponseError(err)

\* One call of _ensure_copy_key for source key `key_name` with ACL `acl`,
\* `dst` being the etag stored under the destination name (<<>>: no object).
ensure_copy_key(key_name, acl, dst, e) ==
    LET kp == key_permissions(DestUser, acl, e.acquire, e.copy, e.clean)
        written == IF e.etagMatch THEN SrcEtag(key_name) ELSE CorruptEtag
        dst1 == IF kp.copied THEN written ELSE dst
        fallback == direct_except_catches(kp.err)
        dst2 == IF fallback /\ e.fallback = "ok" THEN written ELSE dst1
        err1 == IF fallback THEN e.fallback ELSE kp.err
        compared == err1 = "ok" /\ e.post = "ok"
        \* the second try: get_key and set_acl (e.post), then the comparison
        postErr == IF e.post = "ok"
                   THEN check_copy_integrity(SrcEtag(key_name), dst2)
                   ELSE e.post
        err2 == IF err1 # "ok" THEN err1
                ELSE IF postErr # "ok" /\ post_except_catches(postErr) THEN "ok"
                ELSE postErr
    IN  [err |-> err2,
         acl |-> kp.acl,
         dst |-> dst2,
         handling |-> kp.handling,
         copyErr |-> IF e.acquire = "ok" THEN e.copy ELSE "none",
         copied |-> kp.copied,
         fallback |-> fallback,
         compared |-> compared,
         equal |-> compared /\ SrcEtag(key_name) = dst2]

\* ------------------------------------------------------------- _copy_key

\* One attempt of the body of _copy_key: the metadata read, the counters,
\* then _ensure_copy_key.
copy_key(key_name, acl, dst, e) ==
    IF e.head # "ok"
    THEN [err |-> e.head, acl |-> acl, dst |-> dst, handling |-> FALSE,
          copyErr |-> "none", copied |-> FALSE, fallback |-> FALSE,
          compared |-> FALSE, equal |-> FALSE,
          increment |-> 0, invalidates |-> FALSE]
    ELSE LET r == ensure_copy_key(key_name, acl, dst, e)
         IN  [err |-> r.err, acl |-> r.acl, dst |-> r.dst,
              handling |-> r.handling, copyErr |-> r.copyErr,
              copied |-> r.copied, fallback |-> r.fallback,
              compared |-> r.compared, equal |-> r.equal,
              increment |-> IF HasTotal(key_name) THEN TotalOf(key_name) ELSE 0,
              invalidates |-> ~HasTotal(key_name)]

\* Faulty variant: the flag follows the key of the latest attempt.
next_valid_total_count_latest(valid, invalidates) == ~invalidates

\* valid_total_count after an attempt of _copy_key: the only assignment is
\* `self.valid_total_count = False`, for a key without `total`.
next_valid_total_count(valid, invalidates) == valid /\ ~invalidates

\* @retry_long (exporters.default_retries): whether the wrapper calls the
\* function again after its attempt number `attempt` raised `err`.
retry_long_retries(err, attempt) ==
    err # "ok" /\ err # "Integrity" /\ attempt < MaxAttempts

\* ---------------------------------------------------------- S3BypassState

get_state(pending, done, skipped, stats) ==
    [pending |-> pending, done |-> done, skipped |-> skipped, stats |-> stats]

EmptyState == get_state(<<>>, <<>>, <<>>, [total_count |-> 0])

\* Faulty variant: the listing is taken in reverse order.
S3BypassState_fresh_reversed(listing) ==
    get_state([i \in DOMAIN listing |-> listing[Len(listing) + 1 - i]],
              <<>>, <<>>, [total_count |-> 0])

\* S3BypassState.__init__ without a persisted position.
S3BypassState_fresh(listing) ==
    get_state(listing, <<>>, <<>>, [total_count |-> 0])

\* Faulty variant: the persisted position taken as it is.
S3BypassState_load_verbatim(state_position) ==
    get_state(state_position.pending, state_position.done,
              state_position.skipped, state_position.stats)

\* S3BypassState.__init__ with the persisted position `state_position`.
S3BypassState_load(state_position) ==
    get_state(state_position.pending, <<>>, state_position.done,
              state_position.stats)

\* list.remove: drops the first occurrence.
RECURSIVE remove(_, _)
remove(s, x) ==
    IF s = <<>> THEN <<>>
    ELSE IF Head(s) = x THEN Tail(s)
    ELSE <<Head(s)>> \o remove(Tail(s), x)

\* Faulty variant: the key is not taken out of pending.
commit_copied_key_keep(st, key) ==
    get_state(st.pending, Append(st.done, key), st.skipped, st.stats)

\* Faulty variant: pending.pop() in place of pending.remove(key).
commit_copied_key_pop(st, key) ==
    get_state(SubSeq(st.pending, 1, Len(st.pending) - 1), Append(st.done, key),
              st.skipped, st.stats)

\* The in-memory effect of commit_copied_key.
commit_copied_key(st, key) ==
    get_state(remove(st.pending, key), Append(st.done, key), st.skipped,
              st.stats)

increment_items(st, items_number) ==
    [st EXCEPT !.stats.total_count = @ + items_number]

\* The writer's options: the filebase is a template, a sequence of fragments
\* of which "%d" is strftime's day-of-month directive and "{}" and "{date}"
\* are replacement fields of str.format.
writer_options == [filebase |-> <<"out-", "%d">>, save_pointer |-> "LATEST"]

\* The clock: datetime.datetime.now(), as the day it reads.
Days == 1 .. MaxDay

\* str.format(now) and str.format(date=now): a field the call has an argument
\* for is replaced by the timestamp, other fragments are kept.
format_args(template, moment) ==
    [i \in DOMAIN template |-> IF template[i] = "{}" THEN <<moment>>
                               ELSE template[i]]
format_kwargs(template, moment) ==
    [i \in DOMAIN template |-> IF template[i] = "{date}" THEN <<moment>>
                               ELSE template[i]]

\* datetime.strftime(template): the directive is replaced by the day.
strftime(moment, template) ==
    [i \in DOMAIN template |-> IF template[i] = "%d" THEN <<moment>>
                               ELSE template[i]]

\* Faulty variant: the day directive is left as it is.
get_filebase_plain(options, moment) == format_args(options.filebase, moment)

\* _get_filebase(writer_options), the clock reading `moment`.
get_filebase(options, moment) ==
    strftime(moment, format_args(options.filebase, moment))

\* The pointer's content computed by _update_last_pointer, the clock reading
\* `moment`.
update_last_pointer(filebase, moment) ==
    strftime(moment, format_kwargs(filebase, moment))

\* dest_key_name = '{}/{}'.format(dest_filebase, key.split('/')[-1])
key_name_under(filebase, key) == <<filebase, key[Len(key)]>>

DestNames == {key_name_under(get_filebase(writer_options, d), k) :
                d \in Days, k \in KeyNames}

\* ------------------------------------------------------------------ state

VARIABLES
    checkpoint,         \* the persisted position: <<>> or <<the saved state>>
    bypass_state,       \* S3BypassState of the running process
    pc,                 \* where the process is: idle, loop, commit, done, failed
    failure,            \* how the run ended: none, copy, commit, crash
    pending_keys,       \* bypass(): deepcopy of bypass_state.pending_keys()
    idx,                \* position of the copy loop in pending_keys
    attempt,            \* attempts of _copy_key made for the current key
    total_items,        \* S3Bypass.total_items
    valid_total_count,  \* S3Bypass.valid_total_count
    acls,               \* source key -> its ACL's grants
    dest,               \* destination key name -> etag (<<>>: no object)
    runs,               \* runs of bypass() started so far
    config,             \* the pipeline configuration
    elig,               \* result of meets_conditions
    warnings,           \* reasons logged by _raise_conditions_not_met
    call,               \* arguments of one call of _ensure_copy_key
    result,             \* what that call did
    copy_result,        \* history: source key -> outcome of its latest attempt
    attempted,          \* history: keys handed to _copy_key in this run
    committed,          \* history: keys with a persisted commit in this checkpoint
    earlier,            \* history: committed, as it was when this run started
    now,                \* the clock: the day datetime.datetime.now() reads
    dest_filebase,      \* bypass(): the destination prefix of this run
    pointer,            \* content of the save_pointer object (<<>>: no object)
    enumerated          \* history: this run listed the source bucket

runVars == <<checkpoint, bypass_state, pc, failure, pending_keys, idx, attempt,
             total_items, valid_total_count, acls, dest, runs,
             copy_result, attempted, committed, earlier, now, dest_filebase,
             pointer, enumerated>>
eligVars == <<config, elig, warnings, call, result>>
callVars == <<call, result>>
vars == <<checkpoint, bypass_state, pc, failure, pending_keys, idx, attempt,
          total_items, valid_total_count, acls, dest, runs, config, elig,
          warnings, call, result, copy_result, attempted, committed,
          earlier, now, dest_filebase, pointer, enumerated>>

dest_key_name(key) == key_name_under(dest_filebase, key)

NoKey == <<>>
InitRun ==
    /\ checkpoint = <<>>
    /\ bypass_state = EmptyState
    /\ pc = "idle"
    /\ failure = "none"
    /\ pending_keys = <<>>
    /\ idx = 1
    /\ attempt = 0
    /\ total_items = 0
    /\ valid_total_count = TRUE
    /\ acls = [k \in KeyNames |-> InitialAcl(k)]
    /\ dest = [n \in DestNames |-> <<>>]
    /\ runs = 0
    /\ copy_result = [k \in KeyNames |-> "none"]
    /\ attempted = <<>>
    /\ committed = {}
    /\ earlier = {}
    /\ now = 1
    /\ dest_filebase = <<>>
    /\ pointer = <<>>
    /\ enumerated = FALSE

\* --------------------------------------------------------- S3Bypass.bypass

\* bypass() up to the entry of the copy loop, in a fresh process: the ledger
\* is built from the persisted position or from the listing (and persisted).
StartRun ==
    /\ pc \in {"idle", "failed"}
    /\ runs < MaxRuns
    /\ LET st == IF checkpoint = <<>> THEN S3BypassState_fresh(Enumeration)
                 ELSE S3BypassState_load(checkpoint[1])
       IN  /\ bypass_state' = st
           /\ checkpoint' = IF checkpoint = <<>> THEN <<st>> ELSE checkpoint
           /\ total_items' = st.stats.total_count
           /\ pending_keys' = st.pending
    /\ pc' = "loop"
    /\ idx' = 1
    /\ attempt' = 0
    /\ valid_total_count' = TRUE
    /\ runs' = runs + 1
    /\ failure' = "none"
    /\ copy_result' = [k \in KeyNames |-> "none"]
    /\ attempted' = <<>>
    /\ earlier' = committed
    /\ dest_filebase' = get_filebase(writer_options, now)
    /\ enumerated' = (checkpoint = <<>>)
    /\ UNCHANGED <<acls, dest, committed, config, elig, warnings, call, result,
                   now, pointer>>

\* What one attempt of _copy_key(key) leaves, whatever its outcome.
AttemptEffects(key, r) ==
    /\ acls' = [acls EXCEPT ![key] = r.acl]
    /\ dest' = [dest EXCEPT ![dest_key_name(key)] = r.dst]
    /\ total_items' = total_items + r.increment
    /\ bypass_state' = increment_items(bypass_state, r.increment)
    /\ valid_total_count' = next_valid_total_count(valid_total_count, r.invalidates)
    /\ attempted' = IF attempt = 0 THEN Append(attempted, key) ELSE attempted
    /\ copy_result' = [copy_result EXCEPT ![key] =
                          IF r.err # "ok" THEN r.err
                          ELSE IF r.equal THEN "equal"
                          ELSE IF r.compared THEN "unequal"
                          ELSE "unchecked"]
    /\ UNCHANGED <<checkpoint, pending_keys, idx, runs, committed, earlier, config, elig, warnings, call, result, now, dest_filebase, pointer, enumerated>>

\* Faulty variant: the loop iterates the ledger's own list.
loop_keys_live == bypass_state.pending

\* for key in pending_keys: the list the loop iterates, by position.
loop_keys == pending_keys

InLoop == pc = "loop" /\ idx <= Len(loop_keys)

\* What the loop sees of an attempt: the exception, the counters, and what
\* the attempt left in the two buckets.
Seen(r) ==
    [err |-> r.err, acl |-> r.acl, dst |-> r.dst, increment |-> r.increment,
     invalidates |-> r.invalidates, compared |-> r.compared, equal |-> r.equal]

\* One attempt of self._copy_key(...) under @retry_long: it returns, or it
\* raises and the wrapper calls it again, or it raises and the error leaves
\* _copy_key, the loop and bypass().
CopyAttempt ==
    /\ InLoop
    /\ LET key == loop_keys[idx]
       IN  \E r \in {Seen(copy_key(key, acls[key], dest[dest_key_name(key)], e)) :
                       e \in Env} :
             /\ AttemptEffects(key, r)
             /\ IF r.err = "ok"
                THEN /\ pc' = "commit"
                     /\ attempt' = 0
                     /\ UNCHANGED failure
                ELSE IF retry_long_retries(r.err, attempt + 1)
                THEN /\ attempt' = attempt + 1
                     /\ UNCHANGED <<pc, failure>>
                ELSE /\ pc' = "failed"
                     /\ failure' = "copy"
                     /\ attempt' = attempt + 1

\* Faulty variant: the key is committed before it is copied.
CommitBeforeCopy ==
    /\ InLoop
    /\ attempt = 0
    /\ LET key == loop_keys[idx]
           st == commit_copied_key(bypass_state, key)
       IN  /\ bypass_state' = st
           /\ checkpoint' = <<st>>
           /\ committed' = committed \cup {key}
    /\ UNCHANGED <<pc, idx, failure, pending_keys, attempt, total_items,
                   valid_total_count, acls, dest, runs, copy_result,
                   attempted, earlier, config, elig, warnings, call, result,
                   now, dest_filebase, pointer, enumerated>>

\* self.bypass_state.commit_copied_key(key), the position being persisted.
Commit ==
    /\ pc = "commit"
    /\ LET key == loop_keys[idx]
           st == commit_copied_key(bypass_state, key)
       IN  /\ bypass_state' = st
           /\ checkpoint' = <<st>>
           /\ committed' = committed \cup {key}
    /\ idx' = idx + 1
    /\ pc' = "loop"
    /\ UNCHANGED <<failure, pending_keys, attempt, total_items,
                   valid_total_count, acls, dest, runs, copy_result,
                   attempted, earlier, config, elig, warnings, call, result,
                   now, dest_filebase, pointer, enumerated>>

\* Faulty variant: the error of commit_position is swallowed and the loop
\* goes on to the next key.
CommitFailsSwallowed ==
    /\ pc = "commit"
    /\ LET key == loop_keys[idx]
       IN  bypass_state' = commit_copied_key(bypass_state, key)
    /\ idx' = idx + 1
    /\ pc' = "loop"
    /\ UNCHANGED <<checkpoint, failure, pending_keys, attempt, total_items,
                   valid_total_count, acls, dest, runs, copy_result,
                   attempted, committed, earlier, config, elig,
                   warnings, call, result, now, dest_filebase, pointer,
                   enumerated>>

\* commit_copied_key(key) whose commit_position raises: the lists of the
\* process have changed, the persisted position has not.
CommitFails ==
    /\ pc = "commit"
    /\ LET key == loop_keys[idx]
       IN  bypass_state' = commit_copied_key(bypass_state, key)
    /\ failure' = "commit"
    /\ pc' = "failed"
    /\ UNCHANGED <<checkpoint, pending_keys, idx, attempt, total_items,
                   valid_total_count, acls, dest, runs, copy_result,
                   attempted, committed, earlier, config, elig,
                   warnings, call, result, now, dest_filebase, pointer,
                   enumerated>>

\* The loop is over: bypass() goes on to the pointer if save_pointer is
\* configured, and returns otherwise.
FinishLoop ==
    /\ pc = "loop"
    /\ idx > Len(loop_keys)
    /\ pc' = IF writer_options.save_pointer # "" THEN "pointer" ELSE "done"
    /\ UNCHANGED <<checkpoint, bypass_state, failure, pending_keys, idx,
                   attempt, total_items, valid_total_count, acls, dest, runs,
                   copy_result, attempted, committed, earlier, config, elig,
                   warnings, call, result, now, dest_filebase, pointer,
                   enumerated>>

\* _update_last_pointer: the content is computed from the template and the
\* clock, and _write_s3_pointer stores it; bypass() returns.
UpdatePointer ==
    /\ pc = "pointer"
    /\ pointer' = update_last_pointer(writer_options.filebase, now)
    /\ pc' = "done"
    /\ UNCHANGED <<checkpoint, bypass_state, failure, pending_keys, idx,
                   attempt, total_items, valid_total_count, acls, dest, runs,
                   copy_result, attempted, committed, earlier, config, elig,
                   warnings, call, result, now, dest_filebase, enumerated>>

\* _write_s3_pointer raises for the last time @retry_long allows: the error
\* leaves bypass().
UpdatePointerFails ==
    /\ pc = "pointer"
    /\ pc' = "failed"
    /\ failure' = "pointer"
    /\ UNCHANGED <<checkpoint, bypass_state, pending_keys, idx,
                   attempt, total_items, valid_total_count, acls, dest, runs,
                   copy_result, attempted, committed, earlier, config, elig,
                   warnings, call, result, now, dest_filebase, pointer,
                   enumerated>>

\* The process is killed between two steps of bypass().
Crash ==
    /\ pc \in {"loop", "commit", "pointer"}
    /\ pc' = "failed"
    /\ failure' = "crash"
    /\ UNCHANGED <<checkpoint, bypass_state, pending_keys, idx, attempt,
                   total_items, valid_total_count, acls, dest, runs,
                   copy_result, attempted, committed, earlier,
                   config, elig, warnings, call, result, now, dest_filebase,
                   pointer, enumerated>>

\* The clock passes midnight. bypass() reads the clock on entry and at the
\* pointer, so a midnight that passes during the copy loop is taken when the
\* loop is over.
Tick ==
    /\ now < MaxDay
    /\ pc \in {"idle", "failed", "pointer"}
    /\ now' = now + 1
    /\ UNCHANGED <<checkpoint, bypass_state, pc, failure, pending_keys, idx,
                   attempt, total_items, valid_total_count, acls, dest, runs,
                   copy_result, attempted, committed, earlier,
                   config, elig, warnings, call, result, dest_filebase,
                   pointer, enumerated>>

\* The export manager calls close() once bypass() has returned.
ManagerMayClose == pc = "done"

\* close(): the persisted position is deleted.
Close ==
    /\ ManagerMayClose
    /\ checkpoint' = <<>>
    /\ committed' = {}
    /\ pc' = "idle"
    /\ UNCHANGED <<bypass_state, failure, pending_keys, idx, attempt,
                   total_items, valid_total_count, acls, dest, runs,
                   copy_result, attempted, earlier, config,
                   elig, warnings, call, result, now, dest_filebase, pointer,
                   enumerated>>

\* ------------------------------------------------- S3Bypass.meets_conditions

\* Module names are strings, modelled as sequences of fragments; endswith
\* compares the trailing fragments.
EndsWith(name, suffix) ==
    /\ Len(name) >= Len(suffix)
    /\ SubSeq(name, Len(name) - Len(suffix) + 1, Len(name)) = suffix

\* dict.get(option) taken as a condition: the option is present and not 0.
OptionSet(options, option) ==
    option \in DOMAIN options /\ options[option] # 0

OptionNames == {"items_limit", "items_per_buffer_write", "size_per_buffer_write"}

Configs ==
    [reader : {<<"exporters.readers.", "S3Reader">>, <<"My", "S3Reader">>,
               <<"exporters.readers.", "FSReader">>},
     writer : {<<"exporters.writers.", "S3Writer">>,
               <<"exporters.writers.", "FSWriter">>},
     filter_before : {<<"exporters.filters.", "NoFilter">>,
                      <<"exporters.filters.", "KeyValueFilter">>},
     filter_after : {<<"exporters.filters.", "NoFilter">>,
                     <<"exporters.filters.", "KeyValueFilter">>},
     transform : {<<"exporters.transform.", "NoTransform">>,
                  <<"exporters.transform.", "JqTransform">>},
     grouper : {<<"exporters.groupers.", "NoGrouper">>,
                <<"exporters.groupers.", "FileKeyGrouper">>},
     options : UNION {[S -> {0, 5}] : S \in SUBSET OptionNames}]

DefaultConfig ==
    [reader |-> <<"exporters.readers.", "S3Reader">>,
     writer |-> <<"exporters.writers.", "S3Writer">>,
     filter_before |-> <<"exporters.filters.", "NoFilter">>,
     filter_after |-> <<"exporters.filters.", "NoFilter">>,
     transform |-> <<"exporters.transform.", "NoTransform">>,
     grouper |-> <<"exporters.groupers.", "NoGrouper">>,
     options |-> [o \in {"items_limit"} |-> 0]]

\* _raise_conditions_not_met(reason): logs the reason, then raises.
raise_conditions_not_met(reason) ==
    [result |-> "RequisitesNotMet", warnings |-> <<reason>>]

\* Faulty variant: items_limit is looked at before the transform.
meets_conditions_limit_first(cfg) ==
    IF ~EndsWith(cfg.reader, <<"S3Reader">>) \/ ~EndsWith(cfg.writer, <<"S3Writer">>)
    THEN [result |-> "RequisitesNotMet", warnings |-> <<>>]
    ELSE IF ~EndsWith(cfg.filter_before, <<"NoFilter">>)
    THEN raise_conditions_not_met("custom filter configured")
    ELSE IF ~EndsWith(cfg.filter_after, <<"NoFilter">>)
    THEN raise_conditions_not_met("custom filter configured")
    ELSE IF OptionSet(cfg.options, "items_limit")
    THEN raise_conditions_not_met("items limit configuration (items_limit)")
    ELSE IF ~EndsWith(cfg.transform, <<"NoTransform">>)
    THEN raise_conditions_not_met("custom transform configured")
    ELSE IF ~EndsWith(cfg.grouper, <<"NoGrouper">>)
    THEN raise_conditions_not_met("custom grouper configured")
    ELSE IF OptionSet(cfg.options, "items_per_buffer_write")
    THEN raise_conditions_not_met("buffer limit configuration (items_per_buffer_write)")
    ELSE IF OptionSet(cfg.options, "size_per_buffer_write")
    THEN raise_conditions_not_met("buffer limit configuration (size_per_buffer_write)")
    ELSE [result |-> "ok", warnings |-> <<>>]

\* meets_conditions(): its outcome and the reasons it logged.
meets_conditions(cfg) ==
    IF ~EndsWith(cfg.reader, <<"S3Reader">>) \/ ~EndsWith(cfg.writer, <<"S3Writer">>)
    THEN [result |-> "RequisitesNotMet", warnings |-> <<>>]
    ELSE IF ~EndsWith(cfg.filter_before, <<"NoFilter">>)
    THEN raise_conditions_not_met("custom filter configured")
    ELSE IF ~EndsWith(cfg.filter_after, <<"NoFilter">>)
    THEN raise_conditions_not_met("custom filter configured")
    ELSE IF ~EndsWith(cfg.transform, <<"NoTransform">>)
    THEN raise_conditions_not_met("custom transform configured")
    ELSE IF ~EndsWith(cfg.grouper, <<"NoGrouper">>)
    THEN raise_conditions_not_met("custom grouper configured")
    ELSE IF OptionSet(cfg.options, "items_limit")
    THEN raise_conditions_not_met("items limit configuration (items_limit)")
    ELSE IF OptionSet(cfg.options, "items_per_buffer_write")
    THEN raise_conditions_not_met("buffer limit configuration (items_per_buffer_write)")
    ELSE IF OptionSet(cfg.options, "size_per_buffer_write")
    THEN raise_conditions_not_met("buffer limit configuration (size_per_buffer_write)")
    ELSE [result |-> "ok", warnings |-> <<>>]

MeetsConditions ==
    /\ elig = "unchecked"
    /\ LET r == meets_conditions(config)
       IN  /\ elig' = r.result
           /\ warnings' = warnings \o r.warnings
    /\ UNCHANGED <<config, call, result>>
    /\ UNCHANGED runVars

\* ------------------------------------------- one call of _ensure_copy_key

NoCall == [key |-> NoKey, acl |-> <<>>, dst |-> <<>>, e |-> <<>>]
NoResult == [called |-> FALSE]

\* The calls explored: any source key, its ACL with or without a grant of the
\* destination principal, any object already under the destination name, and
\* any behaviour of the storage.
Calls ==
    [key : KeyNames,
     acl : {<<OwnerGrant>>,
            <<OwnerGrant, [id |-> DestUser, permission |-> "READ"]>>,
            <<OwnerGrant, [id |-> "other", permission |-> "READ"]>>},
     dst : {<<>>, CorruptEtag},
     e : {e \in Env : e.head = "ok"}]

EnsureCopyKey ==
    /\ ~result.called
    /\ LET r == ensure_copy_key(call.key, call.acl, call.dst, call.e)
       IN  result' = [called |-> TRUE, err |-> r.err, acl |-> r.acl,
                      dst |-> r.dst, copyErr |-> r.copyErr,
                      copied |-> r.copied, fallback |-> r.fallback,
                      compared |-> r.compared, equal |-> r.equal]
    /\ UNCHANGED <<call, config, elig, warnings>>
    /\ UNCHANGED runVars

\* --------------------------------------------------------- specifications

Init ==
    /\ config = DefaultConfig
    /\ elig = "ok"
    /\ warnings = <<>>
    /\ call = NoCall
    /\ result = NoResult
    /\ InitRun

Next ==
    \/ StartRun
    \/ CopyAttempt
    \/ Commit
    \/ CommitFails
    \/ FinishLoop
    \/ UpdatePointer
    \/ UpdatePointerFails
    \/ Crash
    \/ Close

\* Runs within one day.
Spec == Init /\ [][Next]_vars

\* Runs with midnights passing.
NextClock == Next \/ Tick

SpecClock == Init /\ [][NextClock]_vars

\* The eligibility gate alone, over every configuration.
InitEligibility ==
    /\ config \in Configs
    /\ elig = "unchecked"
    /\ warnings = <<>>
    /\ call = NoCall
    /\ result = NoResult
    /\ InitRun

NextEligibility == MeetsConditions

SpecEligibility == InitEligibility /\ [][NextEligibility]_vars

\* One call of _ensure_copy_key alone, over every call of Calls.
InitCopy ==
    /\ config = DefaultConfig
    /\ elig = "ok"
    /\ warnings = <<>>
    /\ call \in Calls
    /\ result = NoResult
    /\ InitRun

NextCopy == EnsureCopyKey

SpecCopy == InitCopy /\ [][NextCopy]_vars

\* ----------------------------------------------------------------- claims

CurrentKey == pending_keys[idx]
Persisted == checkpoint[1]

\* The ledger has been built from a position that commit_copied_key wrote,
\* and nothing has happened in the run since.
JustLoaded == pc = "loop" /\ attempted = <<>> /\ earlier # {}

C2_NeverRecopied ==
    SeqToSet(attempted) \cap earlier = {}

C2_Witness ==
    /\ runs >= 2
    /\ earlier # {}
    /\ attempted # <<>>

\* C3: when an error leaves _copy_key for the key at position idx, no later
\* key has been attempted, the failing step has not written the persisted
\* position, which is that of the last commit, with this key and the later
\* ones pending in order, and the next run starts its loop at this key (the
\* first key of its snapshot, which is the first key any run copies).
C3_FailedCopy ==
    (pc = "failed" /\ failure = "copy") =>
        /\ attempted = SubSeq(pending_keys, 1, idx)
        /\ checkpoint # <<>>
        /\ Persisted.pending = SubSeq(pending_keys, idx, Len(pending_keys))
        /\ Persisted.pending = bypass_state.pending
        /\ SeqToSet(bypass_state.done) \subseteq SeqToSet(Persisted.done)

C3_ResumesAtFailedKey ==
    /\ (pc = "loop" /\ pc' = "failed") => checkpoint' = checkpoint
    /\ (pc = "failed" /\ failure = "copy" /\ pc' = "loop") =>
          /\ pending_keys' # <<>>
          /\ Head(pending_keys') = CurrentKey

C3_FirstCopied ==
    attempted # <<>> => Head(attempted) = Head(pending_keys)

\* C3: a fatal copy error aborts the loop at its key, leaves the persisted
\* position of the last commit, and the next run resumes at that key.
C3_FatalCopyError ==
    /\ [](C3_FailedCopy /\ C3_FirstCopied)
    /\ [][C3_ResumesAtFailedKey]_vars

C3_Witness ==
    /\ pc = "failed"
    /\ failure = "copy"
    /\ idx = 2
    /\ runs = 2

\* C4, as stated: a copy that leaves a destination etag different from the
\* source's raises, so _copy_key never returns with the two etags different.
C4_MismatchAlwaysRaises ==
    pc = "commit" => dest[dest_key_name(CurrentKey)] = SrcEtag(CurrentKey)

\* C4, amended: when the etag comparison is reached (get_key and set_acl on
\* the destination key raised no S3ResponseError) and the etags differ, the
\* copy raises InvalidKeyIntegrityCheck and the key is not committed: it is
\* still pending, in the process and in the persisted position, and is in
\* neither done list.
C4_ComparedMismatchRaises ==
    \A k \in KeyNames :
        /\ copy_result[k] # "unequal"
        /\ copy_result[k] = "Integrity" =>
              /\ dest[dest_key_name(k)] # SrcEtag(k)
              /\ pc = "failed" /\ failure = "copy"
              /\ k \in SeqToSet(bypass_state.pending)
              /\ k \notin SeqToSet(bypass_state.done)
              /\ k \in SeqToSet(Persisted.pending)
              /\ k \notin SeqToSet(Persisted.done)

C4_Witness ==
    \E k \in KeyNames :
        /\ copy_result[k] = "Integrity"
        /\ dest[dest_key_name(k)] = CorruptEtag
        /\ k \in SeqToSet(Persisted.pending)

\* C5, as stated: every key in done had its etag comparison executed and
\* found equal before its commit.
C5_DoneWereCompared ==
    \A k \in SeqToSet(bypass_state.done) : copy_result[k] = "equal"

\* C5, amended: every key in done had its copy return without error, its
\* etag comparison either executed and found equal or not executed because
\* get_key or set_acl on the destination key raised S3ResponseError.
C5_DoneWereCopied ==
    /\ \A k \in SeqToSet(bypass_state.done) :
          copy_result[k] \in {"equal", "unchecked"}
    /\ pc = "commit" => copy_result[CurrentKey] \in {"equal", "unchecked"}
    /\ committed \ earlier \subseteq SeqToSet(bypass_state.done)

C5_Witness ==
    \E k \in SeqToSet(bypass_state.done) :
        /\ copy_result[k] = "unchecked"
        /\ k \in SeqToSet(Persisted.done)

\* C6: an attempt whose comparison finds the etags different ends in the
\* integrity error and is the last of its run (the error leaves bypass()
\* with attempts to spare, nothing catches it), another attempt of
\* the same key follows only an S3ResponseError or a transport error, and a
\* key gets at most MaxAttempts attempts.
C6_IntegrityNotRetried ==
    /\ \A k \in KeyNames :
          /\ copy_result[k] = "unequal" => pc = "failed"
          /\ copy_result[k] = "Integrity" =>
                /\ pc = "failed" /\ failure = "copy"
                /\ k = CurrentKey
    /\ (pc = "loop" /\ attempt > 0) =>
          copy_result[CurrentKey] \in {"S3Denied", "S3Transient", "Transport"}
    /\ attempt <= MaxAttempts

C6_Witness ==
    /\ pc = "failed"
    /\ failure = "copy"
    /\ attempt = 1
    /\ copy_result[CurrentKey] = "Integrity"

\* The eight eligibility conditions a configuration violates, by number.
ViolatedConditions(cfg) ==
    {i \in 1..8 :
        \/ i = 1 /\ ~(EndsWith(cfg.reader, <<"S3Reader">>)
                      /\ EndsWith(cfg.writer, <<"S3Writer">>))
        \/ i = 2 /\ ~EndsWith(cfg.filter_before, <<"NoFilter">>)
        \/ i = 3 /\ ~EndsWith(cfg.filter_after, <<"NoFilter">>)
        \/ i = 4 /\ ~EndsWith(cfg.transform, <<"NoTransform">>)
        \/ i = 5 /\ ~EndsWith(cfg.grouper, <<"NoGrouper">>)
        \/ i = 6 /\ OptionSet(cfg.options, "items_limit")
        \/ i = 7 /\ OptionSet(cfg.options, "items_per_buffer_write")
        \/ i = 8 /\ OptionSet(cfg.options, "size_per_buffer_write")}

ReasonOf(i) ==
    CASE i \in {2, 3} -> "custom filter configured"
      [] i = 4 -> "custom transform configured"
      [] i = 5 -> "custom grouper configured"
      [] i = 6 -> "items limit configuration (items_limit)"
      [] i = 7 -> "buffer limit configuration (items_per_buffer_write)"
      [] i = 8 -> "buffer limit configuration (size_per_buffer_write)"

\* C7: meets_conditions raises RequisitesNotMet iff the configuration
\* violates one of the eight conditions, and then logs the reason of the
\* lowest-numbered violated condition and nothing else (nothing at all when
\* that is condition 1); it logs nothing when it does not raise.
C7_FirstViolatedCondition ==
    elig # "unchecked" =>
        LET V == ViolatedConditions(config)
        IN  /\ (elig = "RequisitesNotMet") <=> (V # {})
            /\ V = {} => (elig = "ok" /\ warnings = <<>>)
            /\ V # {} =>
                  LET first == CHOOSE i \in V : \A j \in V : i <= j
                  IN  warnings = IF first = 1 THEN <<>> ELSE <<ReasonOf(first)>>

C7_Witness ==
    /\ elig = "RequisitesNotMet"
    /\ {4, 6} \subseteq ViolatedConditions(config)
    /\ warnings = <<"custom transform configured">>

\* C8: after a call of _ensure_copy_key, a destination principal that held
\* no grant on the source key holds none, and the grants of a key on which
\* it held one are unchanged.
C8_GrantRemoved ==
    result.called =>
        IF key_has_permissions(DestUser, call.acl)
        THEN result.acl = call.acl
        ELSE ~key_has_permissions(DestUser, result.acl)

\* C9: a call of _ensure_copy_key in which copy_key completed does not run
\* _copy_without_permissions.
C9_NoFallbackAfterDirectCopy ==
    (result.called /\ result.copied) => ~result.fallback

\* C10: in a call of _ensure_copy_key whose grant handling raised nothing,
\* _copy_without_permissions runs only after copy_key failed with a
\* permission denial; a transient error of copy_key does not trigger it.
C10_FallbackOnlyOnDenial ==
    (result.called /\ call.e.acquire = "ok" /\ call.e.clean = "ok") =>
        /\ result.fallback => result.copyErr = "S3Denied"
        /\ result.copyErr \in {"S3Transient", "Transport"} => ~result.fallback

\* Sum of the `total` metadata over a set of keys, a key without one
\* counting 0.
RECURSIVE SumTotals(_)
SumTotals(keys) ==
    IF keys = {} THEN 0
    ELSE LET k == CHOOSE x \in keys : TRUE
         IN  (IF HasTotal(k) THEN TotalOf(k) ELSE 0) + SumTotals(keys \ {k})

\* C11: when bypass() has returned, total_items and the ledger's
\* stats.total_count are the sum of the totals of the keys copied in the
\* transfer, however many attempts each key took.
C11_CountsEachKeyOnce ==
    pc = "done" =>
        /\ total_items = SumTotals(committed)
        /\ bypass_state.stats.total_count = SumTotals(committed)

\* C12: within a run, valid_total_count once false stays false.
C12_FlagSticky ==
    [][(~valid_total_count /\ runs' = runs) => ~valid_total_count']_vars

C12_Witness ==
    /\ ~valid_total_count
    /\ pc = "done"
    /\ attempted = Enumeration
    /\ copy_result[<<"q", "a">>] = "equal"

\* C13: when bypass() has returned with save_pointer configured, the pointer
\* holds the destination prefix computed for that run, under which the run
\* wrote its keys, also when the clock has advanced since the run started.
C13_PointerIsRunPrefix ==
    (pc = "done" /\ writer_options.save_pointer # "") => pointer = dest_filebase

\* C14: the persisted position is deleted only from a run that has returned
\* without error: every key of its pending list has a persisted commit, none
\* is left pending, and the pointer, if configured, was written as the last
\* step of that run; a failed run keeps its position.
C14_DeletedAfterCompletion ==
    /\ [](pc = "failed" => checkpoint # <<>>)
    /\ [][/\ (checkpoint # <<>> /\ checkpoint' = <<>>) =>
               /\ pc = "done"
               /\ failure = "none"
               /\ Persisted.pending = <<>>
               /\ SeqToSet(pending_keys) \subseteq committed
               /\ writer_options.save_pointer # "" => pointer # <<>>
          /\ (pc # "done" /\ pc' = "done" /\ writer_options.save_pointer # "") =>
               /\ pc = "pointer"
               /\ pointer' = update_last_pointer(writer_options.filebase, now)
       ]_vars

C14_Witness ==
    /\ pc = "idle"
    /\ runs >= 2
    /\ checkpoint = <<>>
    /\ failure = "none"
    /\ pointer # <<>>

\* The steps of a run in progress, and how far a run has got: the position
\* in the snapshot, then whether its key is copied, then the attempts made.
InRun == {"loop", "commit", "pointer"}
Progress ==
    CASE pc = "loop" -> (2 * idx) * (MaxAttempts + 1) + attempt
      [] pc = "commit" -> (2 * idx + 1) * (MaxAttempts + 1)
      [] OTHER -> (2 * Len(pending_keys) + 3) * (MaxAttempts + 1)

\* C15: when bypass() has returned without error, after whatever failed runs
\* resumed from the persisted position, every key of the enumeration has a
\* persisted commit, which a key gets only once its _copy_key has returned
\* without error; and a run terminates, each of its steps taking it further
\* through a bounded progress measure.
C15_AtLeastOnce ==
    /\ [](pc = "done" => KeyNames \subseteq committed)
    /\ [](pc \in InRun =>
            Progress <= (2 * Len(pending_keys) + 3) * (MaxAttempts + 1))
    /\ [][/\ committed' \notin {committed, {}} =>
               /\ committed' = committed \cup {CurrentKey}
               /\ copy_result[CurrentKey] \in {"equal", "unchecked"}
          /\ (pc \in InRun /\ pc' \in InRun) => Progress' > Progress
          /\ pc \in InRun => pc' \in InRun \cup {"done", "failed"}
       ]_vars

C15_Witness ==
    /\ pc = "done"
    /\ runs = MaxRuns
    /\ earlier # {}
    /\ committed = KeyNames
    /\ \E k \in KeyNames : copy_result[k] = "none"

\* _copy_key has returned without error for the key the loop is at.
CurrentCopied ==
    /\ idx <= Len(pending_keys)
    /\ copy_result[CurrentKey] \in {"equal", "unchecked"}

\* C16: a key's commit is persisted after its copy has returned without
\* error and before the copy of the next key starts; a process killed
\* between the copy and the commit leaves the key first in the persisted
\* pending list, and the run that resumes starts with it.
C16_CommitOrdering ==
    /\ []((pc = "failed" /\ failure = "crash" /\ CurrentCopied) =>
            /\ CurrentKey \notin committed
            /\ CurrentKey \notin SeqToSet(Persisted.done)
            /\ Head(Persisted.pending) = CurrentKey)
    /\ [][/\ (checkpoint # <<>> /\ checkpoint' # <<>>
              /\ checkpoint' # checkpoint) =>
               /\ pc = "commit"
               /\ CurrentCopied
               /\ checkpoint'[1].done = Append(bypass_state.done, CurrentKey)
               /\ CurrentKey \notin committed
          /\ (attempted' # attempted /\ attempted' # <<>>) =>
               /\ attempted' = Append(attempted, CurrentKey)
               /\ \A i \in 1 .. (idx - 1) :
                     /\ pending_keys[i] \in SeqToSet(Persisted.done)
                     /\ pending_keys[i] \notin SeqToSet(Persisted.pending)
          /\ (pc = "failed" /\ failure = "crash" /\ CurrentCopied
              /\ pc' = "loop") =>
               Head(pending_keys') = CurrentKey
       ]_vars

C16_Witness ==
    /\ pc = "failed"
    /\ failure = "crash"
    /\ CurrentCopied
    /\ CurrentKey = <<"p", "b">>
    /\ committed = {<<"p", "a">>}
    /\ dest[dest_key_name(CurrentKey)] = SrcEtag(CurrentKey)

\* C17: when the write of the position fails in commit_copied_key(key), the
\* error ends the run: no later key of the snapshot is handed to _copy_key,
\* the destination is not written again, and the persisted position still
\* lists the key as pending and not as done.
C17_FailedCommit ==
    /\ []((pc = "failed" /\ failure = "commit") =>
            /\ CurrentKey \in SeqToSet(Persisted.pending)
            /\ CurrentKey \notin SeqToSet(Persisted.done)
            /\ CurrentKey \notin committed
            /\ attempted = SubSeq(pending_keys, 1, idx))
    /\ [][(pc = "commit" /\ checkpoint' = checkpoint) =>
             /\ pc' = "failed"
             /\ attempted' = attempted
             /\ dest' = dest
             /\ idx' = idx
       ]_vars

C17_Witness ==
    /\ pc = "failed"
    /\ failure = "commit"
    /\ CurrentKey = <<"p", "b">>
    /\ <<"p", "b">> \in SeqToSet(bypass_state.done)
    /\ Persisted.pending = << <<"p", "b">>, <<"q", "a">> >>

\* C18: in every reachable state the pending and done lists share no key, in
\* the running process's ledger and in the persisted position, and a key
\* whose move to done has been persisted is in neither pending list again,
\* across commits, failures and restarts.
C18_LedgerDisjoint ==
    /\ SeqToSet(bypass_state.pending) \cap SeqToSet(bypass_state.done) = {}
    /\ SeqToSet(bypass_state.pending) \cap committed = {}
    /\ checkpoint # <<>> =>
          /\ SeqToSet(Persisted.pending) \cap SeqToSet(Persisted.done) = {}
          /\ SeqToSet(Persisted.pending) \cap committed = {}
          /\ SeqToSet(Persisted.done) \subseteq committed

C18_Witness ==
    /\ runs >= 2
    /\ pc = "loop"
    /\ bypass_state.pending # <<>>
    /\ bypass_state.done # <<>>
    /\ bypass_state.skipped # <<>>
    /\ Persisted = bypass_state

\* C19: a run that finds no persisted position lists the source bucket once
\* and persists the initial position (pending the listing in its order, done
\* empty, total_count 0) before any key is copied; a run that finds a
\* position lists nothing, writes no position while loading, and iterates
\* the pending list it found.
C19_LedgerInit ==
    /\ [](pc # "idle" => checkpoint # <<>>)
    /\ [][(pc \in {"idle", "failed"} /\ pc' = "loop") =>
             /\ attempted' = <<>>
             /\ dest' = dest
             /\ IF checkpoint = <<>>
                THEN /\ enumerated'
                     /\ checkpoint' = <<[pending |-> Enumeration,
                                         done |-> <<>>,
                                         skipped |-> <<>>,
                                         stats |-> [total_count |-> 0]]>>
                     /\ pending_keys' = Enumeration
                ELSE /\ ~enumerated'
                     /\ checkpoint' = checkpoint
                     /\ pending_keys' = Persisted.pending
       ]_vars

C19_Witness ==
    /\ runs >= 2
    /\ pc = "loop"
    /\ attempted = <<>>
    /\ ~enumerated
    /\ Persisted.done # <<>>
    /\ pending_keys = Persisted.pending

\* C20: the loop iterates the snapshot of the pending list taken on entry:
\* the snapshot does not change during the run, the ledger's own list is
\* what is left of it, and when the loop has ended without failure every
\* key of the snapshot has been handed to _copy_key once and committed once,
\* in the snapshot's order, none being skipped.
C20_SnapshotIterated ==
    /\ [](pc \in {"pointer", "done"} =>
            /\ attempted = pending_keys
            /\ bypass_state.done = pending_keys
            /\ bypass_state.pending = <<>>
            /\ SeqToSet(pending_keys) \subseteq committed)
    /\ [](pc = "loop" =>
            /\ bypass_state.pending =
                   SubSeq(pending_keys, idx, Len(pending_keys))
            /\ bypass_state.done = SubSeq(pending_keys, 1, idx - 1))
    /\ [][(pc \in InRun) => (pending_keys' = pending_keys)]_vars

C20_Witness ==
    /\ pc = "done"
    /\ runs = 1
    /\ attempted = Enumeration
    /\ bypass_state.done = Enumeration
    /\ Persisted.pending = <<>>

\* C21: in every persisted position each key of the enumeration is in
\* exactly one of pending, done and skipped, after any commits, failures and
\* restarts, two or more resumes of a transfer included.
C21_NoKeyLost ==
    checkpoint # <<>> =>
        \A k \in KeyNames :
            Cardinality({l \in {"pending", "done", "skipped"} :
                            k \in SeqToSet(Persisted[l])}) = 1

\* C22: within a run the destination key names of two different pending
\* source keys are different, and a first run that has completed leaves one
\* destination object per source key.
C22_DistinctDestNames ==
    /\ pc \in InRun =>
          \A i, j \in DOMAIN pending_keys :
              pending_keys[i] # pending_keys[j] =>
                  dest_key_name(pending_keys[i]) # dest_key_name(pending_keys[j])
    /\ (pc = "done" /\ runs = 1) =>
          Cardinality({n \in DestNames : dest[n] # <<>>}) = Len(pending_keys)

====
